---- MODULE Spec2Model ----
(***************************************************************************)
(* A model of lazy-cartesian-product.hpp (version 1.6): the mixed-radix    *)
(* decoder (precompute, entry_at), the streaming sampler (RandomIterator)  *)
(* and generate_samples, in the native binding and in the Boost binding.   *)
(*                                                                         *)
(* The machine integers of the header are kept as machine integers, with   *)
(* every width scaled down so that the model checker can reach the ends of *)
(* their ranges.  The order of the widths is the one of the real types:    *)
(*     int (32)  <  double's mantissa (53)  <  unsigned long long (64)     *)
(*                                          <  uint1024_t (1024)           *)
(* and unsigned long is as wide as int (LLP64 builds, e.g. Windows) or as  *)
(* wide as unsigned long long (LP64 builds).                               *)
(***************************************************************************)
EXTENDS Integers, Sequences, FiniteSets, TLC

\* ------------------------------------------------------------------ bounds
\* scaled width of int and of unsigned int
IntBits == 8
\* scaled number of significant bits of a double
MantBits == 9
\* scaled width of unsigned long long
ULLBits == 10
\* scaled width of boost's uint1024_t
BigBits == 12
\* longest domain list of the generic family
MaxL == 3
\* largest domain of the generic family
MaxDom == 3

\* ------------------------------------------------------- machine arithmetic
RECURSIVE Pow2(_)
Pow2(b) == IF b = 0 THEN 1 ELSE 2 * Pow2(b - 1)

\* conversion to an unsigned type of the given width
Wrap(x, bits) == x % Pow2(bits)

\* conversion to (signed) int
ToInt(x) ==
    LET u == Wrap(x, IntBits)
    IN  IF u >= Pow2(IntBits - 1) THEN u - Pow2(IntBits) ELSE u

INT_MIN == 0 - Pow2(IntBits - 1)
INT_MAX == Pow2(IntBits - 1) - 1

RECURSIVE BitLength(_)
BitLength(x) == IF x = 0 THEN 0 ELSE 1 + BitLength(x \div 2)

\* conversion of a non-negative integer to double: round to nearest, ties to
\* even, keeping MantBits significant bits
ToDouble(x) ==
    IF x < Pow2(MantBits) THEN x
    ELSE LET ulp == Pow2(BitLength(x) - MantBits)
             lo  == (x \div ulp) * ulp
             rem == x - lo
         IN  IF 2 * rem < ulp THEN lo
             ELSE IF 2 * rem > ulp THEN lo + ulp
             ELSE IF (lo \div ulp) % 2 = 0 THEN lo ELSE lo + ulp

\* the builds of the native binding: the width of unsigned long, and what a
\* conversion of an out-of-range double to unsigned long long yields (the
\* conversion is undefined; x86 yields 0, AArch64 saturates)
Builds ==
    { [unsigned_long |-> ULLBits, cast |-> "zero"],
      [unsigned_long |-> ULLBits, cast |-> "saturate"],
      [unsigned_long |-> IntBits, cast |-> "zero"] }

\* (unsigned long long)(d) for a double d holding a non-negative integer
CastULL(d, b) ==
    IF d < Pow2(ULLBits) THEN d
    ELSE IF b.cast = "zero" THEN 0 ELSE Pow2(ULLBits) - 1

\* ------------------------------------------------------------------ domains
Alphabet == <<"s0", "s1", "s2", "s3", "s4", "s5", "s6", "s7">>

\* the domain of m symbols
Domain(m) == SubSeq(Alphabet, 1, m)

DomainsOf(sizes) == [i \in 1..Len(sizes) |-> Domain(sizes[i])]

Twos(k) == [i \in 1..k |-> 2]

\* every list of at most MaxL domains of at most MaxDom symbols (the empty
\* list and empty domains included)
SmallSizeLists == UNION { [1..l -> 0..MaxDom] : l \in 0..MaxL }

\* lists of two-symbol (and one three-symbol) domains whose spaces reach the
\* ends of the machine ranges
LargeSizeLists ==
    { Twos(MantBits), <<3>> \o Twos(ULLBits - 2), Twos(ULLBits),
      Twos(IntBits), Twos(IntBits + 1) }

Pizza == << <<"Thin", "Thick">>, <<"Marinara", "BBQ">> >>

\* the lists of the README's basic example
crusts == <<"Thin", "Thick", "Cheese-stuffed", "Garlic-rubbed">>
sauces == <<"Marinara", "BBQ", "None">>
cheeses == <<"Mozarella", "Cheddar", "Parmesan">>
toppings == <<"Extra Cheese", "Chicken", "Pepperoni", "Sausage">>

\* vector<vector<string>> possibilities = { crusts, sauces, cheeses, toppings };
possibilities == <<crusts, sauces, cheeses, toppings>>

DomainLists ==
    { DomainsOf(s) : s \in SmallSizeLists \cup LargeSizeLists }
        \cup {Pizza, possibilities}

\* the mathematical size of the product
RECURSIVE Product(_)
Product(c) == IF Len(c) = 0 THEN 1 ELSE Len(Head(c)) * Product(Tail(c))

\* a valid space: at least one domain, no empty domain
ValidSpace(c) == Len(c) >= 1 /\ \A i \in 1..Len(c) : Len(c[i]) >= 1

\* ------------------------------------------------ the decoder, native binding
\* the values a call can end with besides returning
NoCombination == <<>>

RECURSIVE compute_max_size_loop(_, _, _)
compute_max_size_loop(c, it, size) ==
    IF it > Len(c) THEN size
    ELSE compute_max_size_loop(c, it + 1, Wrap(size * Len(c[it]), ULLBits))

\* unsigned long long size = 1; for (it ...) size *= (*it).size();
compute_max_size(c) == compute_max_size_loop(c, 1, 1)

\* the loop of precompute, i running from size - 1 down to 0 (here from
\* Len(c) down to 1); factor is an unsigned long
RECURSIVE precompute_loop(_, _, _, _, _)
precompute_loop(c, i, factor, ps, b) ==
    IF i < 1 THEN ps
    ELSE LET items == Len(c[i])
         IN  precompute_loop(c, i - 1, Wrap(factor * items, b.unsigned_long),
                             [ps EXCEPT !.divs[i] = factor, !.mods[i] = items], b)

precompute(c, b) ==
    IF Len(c) = 0
    THEN [thrown |-> "empty_answers_error",
          ps |-> [divs |-> <<>>, mods |-> <<>>, max_size |-> 0]]
    ELSE LET zero == [i \in 1..Len(c) |-> 0]
             ps0  == [divs |-> zero, mods |-> zero, max_size |-> 0]
             ps1  == precompute_loop(c, Len(c), 1, ps0, b)
         IN  [thrown |-> "none",
              ps |-> [ps1 EXCEPT !.max_size = compute_max_size(c)]]

\* the digit without the division by the place value
digit_at_remainder(n, ps, i, b) ==
    CastULL(ToDouble(n), b) % ps.mods[i]

\* (unsigned long long)(floor(n / ps.divs[i])) % ps.mods[i]: the quotient of
\* the integer division is converted to double by floor, and back
digit_at(n, ps, i, b) ==
    CastULL(ToDouble(n \div ps.divs[i]), b) % ps.mods[i]

\* the private entry_at: no range check; a division or a modulus by zero is
\* undefined behaviour (ub)
entry_at_private(c, n, ps, b) ==
    IF \E i \in 1..Len(c) : ps.divs[i] = 0 \/ ps.mods[i] = 0
    THEN [ub |-> TRUE, combination |-> NoCombination]
    ELSE [ub |-> FALSE,
          combination |-> [i \in 1..Len(c) |-> c[i][digit_at(n, ps, i, b) + 1]]]

\* the public entry_at; index is what the unsigned long long parameter holds
entry_at(c, index, b) ==
    LET pc == precompute(c, b)
    IN  IF pc.thrown # "none"
        THEN [outcome |-> pc.thrown, combination |-> NoCombination]
        ELSE IF index < 0 \/ index >= pc.ps.max_size
        THEN [outcome |-> "index_error", combination |-> NoCombination]
        ELSE LET e == entry_at_private(c, index, pc.ps, b)
             IN  IF e.ub
                 THEN [outcome |-> "undefined", combination |-> NoCombination]
                 ELSE [outcome |-> "returned", combination |-> e.combination]

\* ------------------------------------------------- the decoder, Boost binding
RECURSIVE boost_compute_max_size_loop(_, _, _)
boost_compute_max_size_loop(c, it, size) ==
    IF it > Len(c) THEN size
    ELSE boost_compute_max_size_loop(c, it + 1, Wrap(size * Len(c[it]), BigBits))

boost_compute_max_size(c) == boost_compute_max_size_loop(c, 1, 1)

RECURSIVE boost_precompute_loop(_, _, _, _)
boost_precompute_loop(c, i, factor, ps) ==
    IF i < 1 THEN ps
    ELSE LET items == Len(c[i])
         IN  boost_precompute_loop(c, i - 1, Wrap(factor * items, BigBits),
                                   [ps EXCEPT !.divs[i] = factor, !.mods[i] = items])

boost_precompute(c) ==
    IF Len(c) = 0
    THEN [thrown |-> "empty_answers_error",
          ps |-> [divs |-> <<>>, mods |-> <<>>, max_size |-> 0]]
    ELSE LET zero == [i \in 1..Len(c) |-> 0]
             ps0  == [divs |-> zero, mods |-> zero, max_size |-> 0]
             ps1  == boost_precompute_loop(c, Len(c), 1, ps0)
         IN  [thrown |-> "none",
              ps |-> [ps1 EXCEPT !.max_size = boost_compute_max_size(c)]]

\* the private boost_entry_at: uint1024_t division and modulus throw
\* std::overflow_error on a zero divisor
boost_entry_at_private(c, n, ps) ==
    IF \E i \in 1..Len(c) : ps.divs[i] = 0 \/ ps.mods[i] = 0
    THEN [thrown |-> "overflow_error", combination |-> NoCombination]
    ELSE [thrown |-> "none",
          combination |->
              [i \in 1..Len(c) |-> c[i][((n \div ps.divs[i]) % ps.mods[i]) + 1]]]

\* the public boost_entry_at; numeral is the value the decimal string denotes,
\* parsed into a uint1024_t
boost_entry_at(c, numeral) ==
    LET pc == boost_precompute(c)
        parsed_index == Wrap(numeral, BigBits)
    IN  IF pc.thrown # "none"
        THEN [outcome |-> pc.thrown, combination |-> NoCombination]
        ELSE IF parsed_index < 0 \/ parsed_index >= pc.ps.max_size
        THEN [outcome |-> "index_error", combination |-> NoCombination]
        ELSE LET e == boost_entry_at_private(c, parsed_index, pc.ps)
             IN  IF e.thrown # "none"
                 THEN [outcome |-> e.thrown, combination |-> NoCombination]
                 ELSE [outcome |-> "returned", combination |-> e.combination]

\* -------------------------------------------------------- the RandomIterator
\* range_size = (n - last_k) / num_left, in unsigned long long
range_size(it) == Wrap(it.n - it.last_k, ULLBits) \div it.num_left

\* what uniform_int_distribution<>(0, range_size)(gen) can return: the
\* distribution is one of int, so range_size is converted to int; with a
\* negative upper bound the behaviour is undefined, and any int can come out
rnd(rs) ==
    LET upper == ToInt(rs)
    IN  IF upper >= 0 THEN 0..upper ELSE INT_MIN..INT_MAX

\* RandomIterator(const unsigned long long &amount, const unsigned long long &max)
RandomIterator(amount, max) ==
    [n |-> Wrap(max, ULLBits), last_k |-> 0, num_left |-> Wrap(amount, ULLBits)]

has_next(it) == it.num_left > 0

\* next() keeping a list of the values it has returned
next_remembers(it, drawn) ==
    IF it.num_left > 0
    THEN LET r == Wrap(drawn + it.last_k + 1, ULLBits)
         IN  [thrown |-> "none", r |-> r,
              iter |-> [n |-> it.n, last_k |-> r, num_left |-> it.num_left - 1,
                        seen |-> IF "seen" \in DOMAIN it
                                 THEN Append(it.seen, r) ELSE <<r>>]]
    ELSE [thrown |-> "out_of_range", r |-> 0, iter |-> it]

\* next() without the decrement of num_left
next_keeps_count(it, drawn) ==
    IF it.num_left > 0
    THEN LET r == Wrap(drawn + it.last_k + 1, ULLBits)
         IN  [thrown |-> "none", r |-> r, iter |-> [it EXCEPT !.last_k = r]]
    ELSE [thrown |-> "out_of_range", r |-> 0, iter |-> it]

\* next() without the test of num_left
next_unguarded(it, drawn) ==
    LET r == Wrap(drawn + it.last_k + 1, ULLBits)
    IN  [thrown |-> "none", r |-> r,
         iter |-> [it EXCEPT !.last_k = r,
                             !.num_left = Wrap(it.num_left - 1, ULLBits)]]

\* next(), for the number the generator draws
next(it, drawn) ==
    IF it.num_left > 0
    THEN LET r == Wrap(drawn + it.last_k + 1, ULLBits)
         IN  [thrown |-> "none", r |-> r,
              iter |-> [it EXCEPT !.last_k = r, !.num_left = it.num_left - 1]]
    ELSE [thrown |-> "out_of_range", r |-> 0, iter |-> it]

\* the numbers the generator can draw in next()
draws(it) == IF it.num_left > 0 THEN rnd(range_size(it)) ELSE {0}

\* ------------------------------------------- the RandomIterator, Boost binding
\* RandomIterator(const uint1024_t &amount, const uint1024_t &max)
boost_RandomIterator(amount, max) ==
    [n |-> Wrap(max, BigBits), last_k |-> 0, num_left |-> Wrap(amount, BigBits)]

\* uint1024_t range_size((n - last_k) / num_left)
boost_range_size(it) == Wrap(it.n - it.last_k, BigBits) \div it.num_left

\* next() of the Boost binding, for the number the generator draws
boost_next(it, drawn) ==
    IF it.num_left > 0
    THEN LET r == Wrap(drawn + it.last_k + 1, BigBits)
         IN  [thrown |-> "none", r |-> r,
              iter |-> [it EXCEPT !.last_k = r, !.num_left = it.num_left - 1]]
    ELSE [thrown |-> "out_of_range", r |-> 0, iter |-> it]

\* uniform_int_distribution<uint1024_t> rnd(0, range_size)
boost_draws(it) == IF it.num_left > 0 THEN 0..boost_range_size(it) ELSE {0}

\* ------------------------------------------------ version 1.1 of the header
\* long has the width of unsigned long; conversion to long
ToLong(x, b) ==
    LET u == Wrap(x, b.unsigned_long)
    IN  IF u >= Pow2(b.unsigned_long - 1) THEN u - Pow2(b.unsigned_long) ELSE u

\* the values of a long
IsLong(x, b) ==
    0 - Pow2(b.unsigned_long - 1) <= x /\ x < Pow2(b.unsigned_long - 1)

\* division of longs, truncating towards zero (d # 0)
TruncDiv(a, d) ==
    LET mag(x) == IF x < 0 THEN 0 - x ELSE x
        q == mag(a) \div mag(d)
    IN  IF (a < 0) = (d < 0) THEN q ELSE 0 - q

\* the remainder of that division
TruncRem(a, d) == a - d * TruncDiv(a, d)

\* long size = 1; size *= (*it).size(): the product is computed in the
\* unsigned type of size() and converted back to long
RECURSIVE v11_compute_max_size_loop(_, _, _, _)
v11_compute_max_size_loop(c, it, size_, b) ==
    IF it > Len(c) THEN size_
    ELSE v11_compute_max_size_loop(c, it + 1, ToLong(size_ * Len(c[it]), b), b)

v11_compute_max_size(c, b) == v11_compute_max_size_loop(c, 1, 1, b)

\* the loop of precompute; factor *= items is a multiplication of longs, whose
\* overflow is undefined: the loop goes on with the wrapped value and reports it
RECURSIVE v11_precompute_loop(_, _, _, _, _)
v11_precompute_loop(c, i_, factor, st, b) ==
    IF i_ < 1 THEN st
    ELSE LET items == Len(c[i_])
         IN  v11_precompute_loop(c, i_ - 1, ToLong(factor * items, b),
                 [st EXCEPT !.divs[i_] = factor, !.mods[i_] = items,
                            !.overflow = @ \/ ~IsLong(factor * items, b)], b)

v11_precompute(c, b) ==
    IF Len(c) = 0
    THEN [thrown |-> "empty_answers_error", overflow |-> FALSE,
          ps |-> [divs |-> <<>>, mods |-> <<>>, max_size |-> 0]]
    ELSE LET zero == [j \in 1..Len(c) |-> 0]
             st   == v11_precompute_loop(c, Len(c), 1,
                         [divs |-> zero, mods |-> zero, overflow |-> FALSE], b)
         IN  [thrown |-> "none", overflow |-> st.overflow,
              ps |-> [divs |-> st.divs, mods |-> st.mods,
                      max_size |-> v11_compute_max_size(c, b)]]

\* combinations[i][(n / ps.divs[i]) % ps.mods[i]], in long; a zero divisor and
\* a subscript outside the domain are undefined behaviour (ub)
v11_entry_at_private(c, n, st) ==
    IF \E j \in 1..Len(c) : st.divs[j] = 0 \/ st.mods[j] = 0
    THEN [ub |-> TRUE, combination |-> NoCombination]
    ELSE LET digit(j) == TruncRem(TruncDiv(n, st.divs[j]), st.mods[j])
         IN  IF \E j \in 1..Len(c) : digit(j) < 0 \/ digit(j) >= Len(c[j])
             THEN [ub |-> TRUE, combination |-> NoCombination]
             ELSE [ub |-> FALSE,
                   combination |-> [j \in 1..Len(c) |-> c[j][digit(j) + 1]]]

\* the public entry_at of version 1.1: if (index < 0 || index > pc.max_size)
v11_entry_at(c, index, b) ==
    LET pre == v11_precompute(c, b)
    IN  IF pre.thrown # "none"
        THEN [outcome |-> pre.thrown, combination |-> NoCombination,
              decoded |-> <<>>]
        ELSE IF index < 0 \/ index > pre.ps.max_size
        THEN [outcome |-> "index_error", combination |-> NoCombination,
              decoded |-> <<>>]
        ELSE LET e == v11_entry_at_private(c, index, pre.ps)
             IN  [outcome |-> IF e.ub THEN "undefined" ELSE "returned",
                  combination |-> e.combination, decoded |-> <<index>>]

\* generate_random_indices of version 1.1 without its test of the sample size
v11_sample_size_rejected_never(sample_size, max_size) == FALSE

\* generate_random_indices of version 1.1: if (sample_size > max_size) throw
v11_sample_size_rejected(sample_size, max_size) == sample_size > max_size

\* uniform_int_distribution<> dist{0, (int)(max_size - 1)}: the numbers it can
\* return; with a negative upper bound the behaviour is undefined
v11_dist(max_size, b) ==
    LET upper == ToInt(ToLong(max_size - 1, b))
    IN  IF upper >= 0 THEN 0..upper ELSE INT_MIN..INT_MAX

\* while (candidates.size() < (unsigned)sample_size)
v11_loop_bound(sample_size) == Wrap(sample_size, IntBits)

\* ------------------------------------------------ version 1.3 of the header
\* generate_random_indices of version 1.3: if (sample_size > max_size) throw
v13_sample_size_rejected(sample_size, max_size) == sample_size > max_size

\* uniform_int_distribution<unsigned long long> dist{0, (max_size - 1)}
v13_dist(max_size) == 0..Wrap(max_size - 1, ULLBits)

\* while (candidates.size() < sample_size)
v13_loop_bound(sample_size) == sample_size

\* ------------------------------------------------ the set-based variants
\* the members of a set of numbers in increasing order (sort; the order of std::set)
RECURSIVE Sorted(_)
Sorted(S) ==
    IF S = {} THEN <<>>
    ELSE LET least == CHOOSE x \in S : \A y \in S : x <= y
         IN  <<least>> \o Sorted(S \ {least})

\* the private entry_at of the version called
SetDecode(version, c, n, st, b) ==
    IF version = "v11_generate_samples"
    THEN v11_entry_at_private(c, n, st)
    ELSE entry_at_private(c, n, st, b)

\* for (i : indices) subset.push_back(entry_at(combinations, i, ps)): the
\* combinations collected, and whether a decode was undefined
RECURSIVE DecodeAll(_, _, _, _, _, _)
DecodeAll(version, c, indices, st, b, acc) ==
    IF indices = <<>> THEN [ub |-> FALSE, subset |-> acc]
    ELSE LET e == SetDecode(version, c, Head(indices), st, b)
         IN  IF e.ub THEN [ub |-> TRUE, subset |-> acc]
             ELSE DecodeAll(version, c, Tail(indices), st, b,
                            Append(acc, e.combination))

\* ---------------------------------------------------------------- the state
VARIABLES
    build,          \* the build of the native binding
    combinations,   \* the domain list the caller holds
    pc,             \* "ready", "iter", "sampling", "full", "interleaved",
                    \* "collecting", "done"
    op,             \* the operation called
    arg,            \* its argument, as the caller wrote it
    outcome,        \* how the last call ended
    combination,    \* what entry_at returned
    iter,           \* the RandomIterator (n, last_k, num_left)
    returned,       \* the values next() has returned, in order
    ps,             \* generate_samples: the precomputed statistics
    i,              \* generate_samples: the loop variable of the full pass
    subset,         \* generate_samples: the combinations collected
    decoded,        \* the indices handed to the private entry_at, in order
    size,           \* what compute_max_size returned
    samplers,       \* the RandomIterators of a caller that holds several
    candidates      \* versions 1.1, 1.3: the set generate_random_indices fills

vars == <<build, combinations, pc, op, arg, outcome, combination, iter,
          returned, ps, i, subset, decoded, size, samplers, candidates>>

NoIterator == [n |-> 0, last_k |-> 0, num_left |-> 0]
NoStats == [divs |-> <<>>, mods |-> <<>>, max_size |-> 0]
DefaultBuild == [unsigned_long |-> ULLBits, cast |-> "zero"]

Fresh ==
    /\ pc = "ready"
    /\ op = "none"
    /\ arg = 0
    /\ outcome = "none"
    /\ combination = NoCombination
    /\ iter = NoIterator
    /\ returned = <<>>
    /\ ps = NoStats
    /\ i = 0
    /\ subset = <<>>
    /\ decoded = <<>>
    /\ size = 0
    /\ samplers = <<>>
    /\ candidates = {}

\* ------------------------------------------------------- calls of the decoder
\* the arguments a caller tries: -1, every index of the space, and the first
\* indices past it
Indices(c) == (0 - 1) .. (Product(c) + 1)

CallEntryAt ==
    /\ pc = "ready"
    /\ \E v \in Indices(combinations) :
          LET res == entry_at(combinations, Wrap(v, ULLBits), build)
          IN  /\ arg' = v
              /\ outcome' = res.outcome
              /\ combination' = res.combination
    /\ op' = "entry_at"
    /\ pc' = "done"
    /\ UNCHANGED <<candidates, size, samplers, build, combinations, iter, returned, ps, i, subset, decoded>>

CallBoostEntryAt ==
    /\ pc = "ready"
    /\ \E v \in Indices(combinations) :
          LET res == boost_entry_at(combinations, v)
          IN  /\ arg' = v
              /\ outcome' = res.outcome
              /\ combination' = res.combination
    /\ op' = "boost_entry_at"
    /\ pc' = "done"
    /\ UNCHANGED <<candidates, size, samplers, build, combinations, iter, returned, ps, i, subset, decoded>>

\* the public compute_max_size: no test of the list, no exception
CallComputeMaxSize ==
    /\ pc = "ready"
    /\ size' = compute_max_size(combinations)
    /\ op' = "compute_max_size"
    /\ outcome' = "returned"
    /\ pc' = "done"
    /\ UNCHANGED <<candidates, samplers, build, combinations, arg, combination, iter,
                   returned, ps, i, subset, decoded>>

CallBoostComputeMaxSize ==
    /\ pc = "ready"
    /\ size' = boost_compute_max_size(combinations)
    /\ op' = "boost_compute_max_size"
    /\ outcome' = "returned"
    /\ pc' = "done"
    /\ UNCHANGED <<candidates, samplers, build, combinations, arg, combination, iter,
                   returned, ps, i, subset, decoded>>

\* the numbers handed to the private entry_at: up to one past twice the size of
\* the space, and the first odd number a double does not hold
PrivateIndices(c) ==
    { n \in 0..(2 * Product(c) + 1) \cup {Pow2(MantBits) + 1} : n < Pow2(ULLBits) }

\* the private entry_at(combinations, n, ps) with ps = precompute(combinations),
\* as generate_samples calls it
CallPrivateEntryAt ==
    /\ pc = "ready"
    /\ Len(combinations) > 0
    /\ \E n \in PrivateIndices(combinations) :
          LET stats == precompute(combinations, build).ps
              e == entry_at_private(combinations, n, stats, build)
          IN  /\ arg' = n
              /\ ps' = stats
              /\ decoded' = <<n>>
              /\ outcome' = IF e.ub THEN "undefined" ELSE "returned"
              /\ combination' = e.combination
    /\ op' = "entry_at_private"
    /\ pc' = "done"
    /\ UNCHANGED <<candidates, size, samplers, build, combinations, iter,
                   returned, i, subset>>

InitDecode ==
    /\ build \in Builds
    /\ combinations \in DomainLists
    /\ Fresh

NextDecode ==
    \/ CallEntryAt \/ CallBoostEntryAt
    \/ CallComputeMaxSize \/ CallBoostComputeMaxSize
    \/ CallPrivateEntryAt

SpecDecode == InitDecode /\ [][NextDecode]_vars

\* the calls of the README's basic example: the caller holds possibilities
InitReadme ==
    /\ build \in Builds
    /\ combinations = possibilities
    /\ Fresh

SpecReadme == InitReadme /\ [][NextDecode]_vars

\* ------------------------------------------------- calls of the RandomIterator
\* largest upper bound of the small samplers
MaxN == 5

\* (amount, max) of the samplers constructed: every small one, amounts up to
\* two past the upper bound included, and samplers whose first range_size is at the
\* ends of int's range
SamplerInputs ==
    UNION { { <<k, n>> : k \in 0..(n + 2) } : n \in 0..MaxN }
        \cup { <<1, Pow2(IntBits - 1) - 1>>, <<1, Pow2(IntBits - 1)>>,
               <<1, Pow2(IntBits) + 2>>, <<2, Pow2(IntBits)>> }

\* a sampler of its own is constructed by a caller that holds no domain list
Construct ==
    /\ pc = "ready"
    /\ combinations = <<>>
    /\ \E kn \in SamplerInputs :
          /\ iter' = RandomIterator(kn[1], kn[2])
          /\ arg' = kn[1]
    /\ op' = "RandomIterator"
    /\ pc' = "iter"
    /\ UNCHANGED <<candidates, size, samplers, build, combinations, outcome, combination, returned, ps, i,
                   subset, decoded>>

CallNext ==
    /\ pc = "iter"
    /\ \E drawn \in draws(iter) :
          LET res == next(iter, drawn)
          IN  /\ iter' = res.iter
              /\ outcome' = IF res.thrown = "none" THEN "returned" ELSE res.thrown
              /\ returned' = IF res.thrown = "none"
                             THEN Append(returned, res.r) ELSE returned
    /\ UNCHANGED <<candidates, size, samplers, build, combinations, pc, op, arg, combination, ps, i, subset,
                   decoded>>

InitSampler ==
    /\ build = DefaultBuild
    /\ combinations = <<>>
    /\ Fresh

NextSampler == Construct \/ CallNext

SpecSampler == InitSampler /\ [][NextSampler]_vars

\* ------------------------------------------------------------ generate_samples
\* largest space sampled with every sample size
MaxSpace == 8

SampleLists ==
    { c \in DomainLists : Product(c) <= MaxSpace }
        \cup { DomainsOf(Twos(IntBits - 1)), DomainsOf(Twos(IntBits)),
               DomainsOf(Twos(IntBits + 1)),
               DomainsOf(<<3>> \o Twos(ULLBits - 2)) }

\* the sample sizes tried: every size up to two past the size of the space; of
\* a large space, one sample and the whole space
SampleSizes(c) ==
    IF Product(c) <= MaxSpace THEN 0..(Product(c) + 2) ELSE {1, Product(c)}

\* generate_samples up to the loop it chooses
CallGenerateSamples ==
    /\ pc = "ready"
    /\ combinations \in SampleLists
    /\ op' = "generate_samples"
    /\ \E sample_size \in SampleSizes(combinations) :
          /\ arg' = sample_size
          /\ IF Len(combinations) = 0
             THEN /\ outcome' = "empty_list_error"
                  /\ pc' = "done"
                  /\ UNCHANGED <<ps, iter, i>>
             ELSE LET stats == precompute(combinations, build).ps
                  IN  /\ ps' = stats
                      /\ outcome' = outcome
                      /\ IF Wrap(sample_size, ULLBits) # stats.max_size
                         THEN /\ iter' = RandomIterator(sample_size, stats.max_size)
                              /\ pc' = "sampling"
                              /\ i' = i
                         ELSE /\ pc' = "full"
                              /\ i' = 0
                              /\ iter' = iter
    /\ UNCHANGED <<candidates, size, samplers, build, combinations, combination, returned, subset, decoded>>

\* one turn of while (iter.has_next()) subset.push_back(entry_at(.., iter.next(), ps))
SampleOne ==
    /\ pc = "sampling"
    /\ op = "generate_samples"
    /\ has_next(iter)
    /\ \E drawn \in draws(iter) :
          LET res == next(iter, drawn)
              e   == entry_at_private(combinations, res.r, ps, build)
          IN  /\ iter' = res.iter
              /\ returned' = Append(returned, res.r)
              /\ decoded' = Append(decoded, res.r)
              /\ IF e.ub
                 THEN /\ outcome' = "undefined"
                      /\ pc' = "done"
                      /\ subset' = subset
                 ELSE /\ subset' = Append(subset, e.combination)
                      /\ UNCHANGED <<outcome, pc>>
    /\ UNCHANGED <<candidates, size, samplers, build, combinations, op, arg, combination, ps, i>>

\* one turn of for (i = 0; i < sample_size; ++i) subset.push_back(entry_at(.., i, ps))
FullOne ==
    /\ pc = "full"
    /\ op = "generate_samples"
    /\ i < Wrap(arg, ULLBits)
    /\ LET e == entry_at_private(combinations, i, ps, build)
       IN  /\ decoded' = Append(decoded, i)
           /\ IF e.ub
              THEN /\ outcome' = "undefined"
                   /\ pc' = "done"
                   /\ UNCHANGED <<subset, i>>
              ELSE /\ subset' = Append(subset, e.combination)
                   /\ i' = Wrap(i + 1, ULLBits)
                   /\ UNCHANGED <<outcome, pc>>
    /\ UNCHANGED <<candidates, size, samplers, build, combinations, op, arg, combination, ps, iter, returned>>

\* return subset
ReturnSubset ==
    /\ op = "generate_samples"
    /\ \/ pc = "sampling" /\ ~has_next(iter)
       \/ pc = "full" /\ ~(i < Wrap(arg, ULLBits))
    /\ outcome' = "returned"
    /\ pc' = "done"
    /\ UNCHANGED <<candidates, size, samplers, build, combinations, op, arg, combination, ps, iter, returned,
                   i, subset, decoded>>

\* boost_generate_samples up to the loop it chooses; numeral is the value the
\* decimal string sample_size denotes
CallBoostGenerateSamples ==
    /\ pc = "ready"
    /\ combinations \in SampleLists
    /\ op' = "boost_generate_samples"
    /\ \E numeral \in SampleSizes(combinations) :
          LET parsed_sample_size == Wrap(numeral, BigBits)
          IN  /\ arg' = numeral
              /\ IF Len(combinations) = 0
                 THEN /\ outcome' = "empty_list_error"
                      /\ pc' = "done"
                      /\ UNCHANGED <<ps, iter, i>>
                 ELSE LET stats == boost_precompute(combinations).ps
                      IN  /\ ps' = stats
                          /\ outcome' = outcome
                          /\ IF parsed_sample_size # stats.max_size
                             THEN /\ iter' = boost_RandomIterator(parsed_sample_size,
                                                                  stats.max_size)
                                  /\ pc' = "sampling"
                                  /\ i' = i
                             ELSE /\ pc' = "full"
                                  /\ i' = 0
                                  /\ iter' = iter
    /\ UNCHANGED <<candidates, size, samplers, build, combinations, combination, returned, subset, decoded>>

\* one turn of while (iter.has_next())
\*     subset.push_back(boost_entry_at(combinations, iter.next(), ps))
BoostSampleOne ==
    /\ pc = "sampling"
    /\ op = "boost_generate_samples"
    /\ has_next(iter)
    /\ \E drawn \in boost_draws(iter) :
          LET res == boost_next(iter, drawn)
              e   == boost_entry_at_private(combinations, res.r, ps)
          IN  /\ iter' = res.iter
              /\ returned' = Append(returned, res.r)
              /\ decoded' = Append(decoded, res.r)
              /\ IF e.thrown # "none"
                 THEN /\ outcome' = e.thrown
                      /\ pc' = "done"
                      /\ subset' = subset
                 ELSE /\ subset' = Append(subset, e.combination)
                      /\ UNCHANGED <<outcome, pc>>
    /\ UNCHANGED <<candidates, size, samplers, build, combinations, op, arg, combination, ps, i>>

\* one turn of for (uint1024_t i = 0; i < parsed_sample_size; ++i)
\*     subset.push_back(boost_entry_at(combinations, i, ps))
BoostFullOne ==
    /\ pc = "full"
    /\ op = "boost_generate_samples"
    /\ i < Wrap(arg, BigBits)
    /\ LET e == boost_entry_at_private(combinations, i, ps)
       IN  /\ decoded' = Append(decoded, i)
           /\ IF e.thrown # "none"
              THEN /\ outcome' = e.thrown
                   /\ pc' = "done"
                   /\ UNCHANGED <<subset, i>>
              ELSE /\ subset' = Append(subset, e.combination)
                   /\ i' = Wrap(i + 1, BigBits)
                   /\ UNCHANGED <<outcome, pc>>
    /\ UNCHANGED <<candidates, size, samplers, build, combinations, op, arg, combination, ps, iter, returned>>

\* return subset, in boost_generate_samples
BoostReturnSubset ==
    /\ op = "boost_generate_samples"
    /\ \/ pc = "sampling" /\ ~has_next(iter)
       \/ pc = "full" /\ ~(i < Wrap(arg, BigBits))
    /\ outcome' = "returned"
    /\ pc' = "done"
    /\ UNCHANGED <<candidates, size, samplers, build, combinations, op, arg, combination, ps, iter, returned,
                   i, subset, decoded>>

InitSamples ==
    /\ build \in Builds
    /\ combinations \in SampleLists
    /\ Fresh

NextSamples ==
    \/ CallGenerateSamples \/ SampleOne \/ FullOne \/ ReturnSubset
    \/ CallBoostGenerateSamples \/ BoostSampleOne \/ BoostFullOne
    \/ BoostReturnSubset

SpecSamples == InitSamples /\ [][NextSamples]_vars

\* ------------------------------------- calls of versions 1.1 and 1.3
\* largest space sampled by the set-based variants with every sample size
MaxSetSpace == 4

\* the lists the set-based variants are called on: the small ones, and one
\* whose size is past the range of unsigned int
SetLists ==
    { c \in DomainLists : Product(c) <= MaxSetSpace }
        \cup { DomainsOf(<<3>> \o Twos(IntBits - 1)) }

\* the sample sizes tried: of a small valid space, -1 and every size up to one
\* past the size of the space; of the large space, one past the range of
\* unsigned int
SetSampleSizes(c) ==
    IF Product(c) > MaxSetSpace THEN {Pow2(IntBits) + 1}
    ELSE IF ValidSpace(c) THEN (0 - 1)..(Product(c) + 1)
    ELSE 0..1

\* what an overflow of long can do in the build: wrap, or trap
Traps(overflow) == IF overflow THEN {FALSE, TRUE} ELSE {FALSE}

\* entry_at of version 1.1
CallV11EntryAt ==
    /\ pc = "ready"
    /\ combinations \in SetLists
    /\ \E v \in Indices(combinations) :
          /\ IsLong(v, build)
          /\ \E trap \in Traps(v11_precompute(combinations, build).overflow) :
                LET res == v11_entry_at(combinations, v, build)
                IN  /\ arg' = v
                    /\ outcome' = IF trap THEN "undefined" ELSE res.outcome
                    /\ combination' = IF trap THEN NoCombination
                                      ELSE res.combination
                    /\ decoded' = IF trap THEN <<>> ELSE res.decoded
    /\ op' = "v11_entry_at"
    /\ pc' = "done"
    /\ UNCHANGED <<candidates, size, samplers, build, combinations, iter,
                   returned, ps, i, subset>>

\* generate_samples of version 1.1 (version = "v11_generate_samples") and of
\* version 1.3, up to the loop of generate_random_indices; the full pass
\* for (i = 0; i < sample_size; ++i) is taken whole
CallSetGenerateSamples(version) ==
    /\ pc = "ready"
    /\ combinations \in SetLists
    /\ version = "v13_generate_samples" => Product(combinations) <= MaxSetSpace
    /\ op' = version
    /\ \E written \in SetSampleSizes(combinations) :
          LET v11 == version = "v11_generate_samples"
              sample_size == IF v11 THEN written ELSE Wrap(written, ULLBits)
              pre == IF v11 THEN v11_precompute(combinations, build)
                     ELSE precompute(combinations, build) @@ [overflow |-> FALSE]
              rejected == IF v11
                          THEN v11_sample_size_rejected(sample_size, pre.ps.max_size)
                          ELSE v13_sample_size_rejected(sample_size, pre.ps.max_size)
              full == DecodeAll(version, combinations,
                                [j \in 1..sample_size |-> j - 1], pre.ps, build, <<>>)
          IN  /\ v11 => IsLong(written, build)
              /\ arg' = written
              /\ IF Len(combinations) = 0
                 THEN /\ outcome' = "empty_list_error"
                      /\ pc' = "done"
                      /\ UNCHANGED <<ps, subset, decoded>>
                 ELSE \E trap \in Traps(pre.overflow) :
                      IF trap
                      THEN /\ outcome' = "undefined"
                           /\ pc' = "done"
                           /\ UNCHANGED <<ps, subset, decoded>>
                      ELSE /\ ps' = pre.ps
                           /\ IF sample_size = pre.ps.max_size
                              THEN /\ outcome' = IF full.ub THEN "undefined"
                                                 ELSE "returned"
                                   /\ subset' = full.subset
                                   /\ decoded' = [j \in 1..sample_size |-> j - 1]
                                   /\ pc' = "done"
                              ELSE IF rejected
                              THEN /\ outcome' = "invalid_sample_size_error"
                                   /\ pc' = "done"
                                   /\ UNCHANGED <<subset, decoded>>
                              ELSE /\ pc' = "collecting"
                                   /\ UNCHANGED <<outcome, subset, decoded>>
    /\ UNCHANGED <<candidates, size, samplers, build, combinations, combination,
                   iter, returned, i>>

CallV11GenerateSamples == CallSetGenerateSamples("v11_generate_samples")

CallV13GenerateSamples == CallSetGenerateSamples("v13_generate_samples")

\* the numbers dist(generator) can return in the version called
SetDist ==
    IF op = "v11_generate_samples" THEN v11_dist(ps.max_size, build)
    ELSE v13_dist(ps.max_size)

\* the sample size as the parameter holds it, and the bound of the loop
SetSampleSize == IF op = "v11_generate_samples" THEN arg ELSE Wrap(arg, ULLBits)

SetLoopBound ==
    IF op = "v11_generate_samples" THEN v11_loop_bound(SetSampleSize)
    ELSE v13_loop_bound(SetSampleSize)

\* one turn of while (candidates.size() < sample_size)
\*     candidates.insert(dist(generator))
DrawCandidate ==
    /\ pc = "collecting"
    /\ Cardinality(candidates) < SetLoopBound
    /\ \E drawn \in SetDist : candidates' = candidates \cup {drawn}
    /\ UNCHANGED <<size, samplers, build, combinations, pc, op, arg, outcome,
                   combination, iter, returned, ps, i, subset, decoded>>

\* the loop has ended: the candidates are put in order and returned, and
\* generate_samples decodes each of them
ReturnSetSamples ==
    /\ pc = "collecting"
    /\ ~(Cardinality(candidates) < SetLoopBound)
    /\ LET random_indices == Sorted(candidates)
           all == DecodeAll(op, combinations, random_indices, ps, build, <<>>)
       IN  /\ returned' = random_indices
           /\ decoded' = random_indices
           /\ subset' = all.subset
           /\ outcome' = IF all.ub THEN "undefined" ELSE "returned"
    /\ pc' = "done"
    /\ UNCHANGED <<candidates, size, samplers, build, combinations, op, arg,
                   combination, iter, ps, i>>

InitSetBased ==
    /\ build \in Builds
    /\ combinations \in SetLists
    /\ Fresh

NextSetBased ==
    \/ CallV11EntryAt \/ CallV11GenerateSamples \/ CallV13GenerateSamples
    \/ DrawCandidate \/ ReturnSetSamples

SpecSetBased == InitSetBased /\ [][NextSetBased]_vars

\* ------------------------------------------ several samplers and decode calls
\* the number of RandomIterators the caller holds
NumSamplers == 2

\* largest upper bound of the interleaved samplers
MaxPairN == 2

\* one RandomIterator among several, with what its caller has seen of it
NewSampler(amount, max) ==
    [k |-> amount, iter |-> RandomIterator(amount, max), returned |-> <<>>,
     outcome |-> "none"]

\* next() on sampler s, were last_k a static member shared by the objects
step_sampler_shared(ss, s, drawn) ==
    LET res == next(ss[s].iter, drawn)
    IN  [t \in DOMAIN ss |->
            IF t = s
            THEN [k |-> ss[s].k,
                  iter |-> res.iter,
                  returned |-> IF res.thrown = "none"
                               THEN Append(ss[s].returned, res.r)
                               ELSE ss[s].returned,
                  outcome |-> IF res.thrown = "none" THEN "returned"
                              ELSE res.thrown]
            ELSE [ss[t] EXCEPT !.iter.last_k = res.iter.last_k]]

\* next() on sampler s: it reads and writes the members of that object only
step_sampler(ss, s, drawn) ==
    LET res == next(ss[s].iter, drawn)
    IN  [ss EXCEPT ![s] =
            [k |-> ss[s].k,
             iter |-> res.iter,
             returned |-> IF res.thrown = "none"
                          THEN Append(ss[s].returned, res.r)
                          ELSE ss[s].returned,
             outcome |-> IF res.thrown = "none" THEN "returned"
                         ELSE res.thrown]]

\* the list the interleaved callers share
SharedList == DomainsOf(<<2>>)

\* the caller constructs its samplers, each with 1 <= amount <= max
ConstructSamplers ==
    /\ pc = "ready"
    /\ combinations = SharedList
    /\ \E amount \in [1..NumSamplers -> 1..MaxPairN] :
          samplers' = [s \in 1..NumSamplers |-> NewSampler(amount[s], MaxPairN)]
    /\ op' = "interleaved"
    /\ pc' = "interleaved"
    /\ UNCHANGED <<candidates, size, build, combinations, arg, outcome, combination, iter,
                   returned, ps, i, subset, decoded>>

\* a call of next() on one of the samplers
NextOfOne ==
    /\ pc = "interleaved"
    /\ \E s \in DOMAIN samplers :
          \E drawn \in draws(samplers[s].iter) :
              samplers' = step_sampler(samplers, s, drawn)
    /\ UNCHANGED <<candidates, size, build, combinations, pc, op, arg, outcome, combination,
                   iter, returned, ps, i, subset, decoded>>

\* a call of entry_at on the shared list, between two calls of next()
DecodeShared ==
    /\ pc = "interleaved"
    /\ \E v \in 0..(Product(combinations) - 1) :
          LET res == entry_at(combinations, v, build)
          IN  /\ arg' = v
              /\ outcome' = res.outcome
              /\ combination' = res.combination
    /\ UNCHANGED <<candidates, size, samplers, build, combinations, pc, op, iter, returned,
                   ps, i, subset, decoded>>

InitInterleave ==
    /\ build = DefaultBuild
    /\ combinations = SharedList
    /\ Fresh

NextInterleave == ConstructSamplers \/ NextOfOne \/ DecodeShared

SpecInterleave == InitInterleave /\ [][NextInterleave]_vars

\* ------------------------------------------------------------ the whole program
\* SpecDecode, SpecSampler and SpecSamples are the parts of Spec that start
\* with a call of entry_at, with the construction of a RandomIterator and
\* with a call of generate_samples
Init == InitDecode \/ InitSampler \/ InitSamples

Next ==
    \/ NextDecode \/ NextSampler \/ NextSamples \/ NextInterleave
    \/ NextSetBased

Spec == Init /\ [][Next]_vars

\* ------------------------------------------------------------ C1, C2, C3
\* the mixed-radix weight of position i: the product of the sizes of the
\* domains to its right
RECURSIVE PlaceValue(_, _)
PlaceValue(c, pos) ==
    IF pos >= Len(c) THEN 1 ELSE Len(c[pos + 1]) * PlaceValue(c, pos + 1)

\* the call of the public entry_at (either binding) has ended
DecoderDone == pc = "done" /\ op \in {"entry_at", "boost_entry_at"}

\* the width of the index type of the binding called
IndexBits == IF op = "boost_entry_at" THEN BigBits ELSE ULLBits

\* a valid space whose size the index type of the binding can hold
HeldSpace ==
    ValidSpace(combinations) /\ Product(combinations) < Pow2(IndexBits)

InRange == 0 <= arg /\ arg < Product(combinations)

\* C1: for a valid space, the combination entry_at returns for an in-range
\* index is the decode of no smaller index: the decodes of the indices of
\* [0, totalSize) are pairwise distinct (the decode is a bijection from
\* [0, totalSize) onto the product).
C1_Bijection ==
    (DecoderDone /\ op = "entry_at" /\ HeldSpace /\ InRange
                 /\ outcome = "returned") =>
        LET stats == precompute(combinations, build).ps
        IN  \A j \in 0..(arg - 1) :
                entry_at_private(combinations, j, stats, build).combination
                    # combination

\* C2: the i-th symbol entry_at returns for an in-range index is
\* domains[i][(index / placeValue[i]) % modulus[i]], with floor division and
\* position 0 the most significant digit.
C2_DigitFormula ==
    (DecoderDone /\ HeldSpace /\ InRange /\ outcome = "returned") =>
        /\ Len(combination) = Len(combinations)
        /\ \A pos \in 1..Len(combinations) :
              combination[pos] =
                  combinations[pos][((arg \div PlaceValue(combinations, pos))
                                        % Len(combinations[pos])) + 1]

\* C3: for a valid space the public entry_at fails with index_error, returning
\* no combination, for index totalSize, for -1 and for any index >= totalSize,
\* and it succeeds for index 0 and for index totalSize - 1.
C3_Boundary ==
    (DecoderDone /\ HeldSpace /\ arg < Pow2(IndexBits)) =>
        /\ (arg = 0 - 1 \/ arg >= Product(combinations)) =>
              (outcome = "index_error" /\ combination = NoCombination)
        /\ (arg = 0 \/ arg = Product(combinations) - 1) => outcome = "returned"

\* ------------------------------------------------------------ C4 .. C8
\* a sampler constructed directly, with 0 <= k <= N
SamplerInContract == op = "RandomIterator" /\ 0 <= arg /\ arg <= iter.n

\* C4: the values successive next() calls return are strictly increasing.
C4_StrictlyIncreasing ==
    SamplerInContract =>
        \A j \in 1..(Len(returned) - 1) : returned[j] < returned[j + 1]

\* C5: every value next() returns lies in [1, N].
C5_WithinOneToN ==
    SamplerInContract =>
        \A j \in 1..Len(returned) : 1 <= returned[j] /\ returned[j] <= iter.n

\* C6: has_next() is true exactly while fewer than k values have been
\* returned; every success takes one from the remaining count, so exactly k
\* calls of next() succeed, and a call fails only after the k-th success.
C6_HasNextCounts ==
    SamplerInContract =>
        /\ iter.num_left + Len(returned) = arg
        /\ has_next(iter) <=> Len(returned) < arg
        /\ outcome = "out_of_range" => Len(returned) = arg
        /\ Len(returned) >= 1 /\ Len(returned) < arg => outcome = "returned"

C6_Witness ==
    /\ SamplerInContract
    /\ arg >= 2
    /\ Len(returned) = arg
    /\ outcome = "returned"
    /\ ~has_next(iter)

\* C7: next() on a sampler whose remaining count is 0 throws out_of_range,
\* returns no value and leaves n, last_k and num_left as they were.
C7_ExhaustedThrows ==
    [][(op = "RandomIterator" /\ pc = "iter" /\ iter.num_left = 0) =>
          (iter' = iter /\ returned' = returned /\ outcome' = "out_of_range")]_vars

C7_Witness ==
    /\ op = "RandomIterator"
    /\ arg >= 1
    /\ Len(returned) = arg
    /\ iter.num_left = 0
    /\ outcome = "out_of_range"

\* C8: a sampler constructed with k > N, and generate_samples called with
\* sample_size > totalSize, fail with invalid_sample_size_error before any
\* index is drawn and without any combination.
C8_RejectsOversizedSample ==
    /\ (op = "RandomIterator" /\ arg > iter.n) =>
          (outcome = "invalid_sample_size_error" /\ returned = <<>>)
    /\ (op = "generate_samples" /\ ValidSpace(combinations)
            /\ arg > Product(combinations)) =>
          /\ outcome \in {"none", "invalid_sample_size_error"}
          /\ returned = <<>>
          /\ subset = <<>>

\* ------------------------------------------------------------ C9, C10
\* the place of a symbol in its domain, from 0
PlaceOf(domain, symbol) ==
    (CHOOSE d \in 1..Len(domain) : domain[d] = symbol) - 1

\* the index of a combination in the space
RECURSIVE IndexOf(_, _, _)
IndexOf(c, comb, pos) ==
    IF pos > Len(c) THEN 0
    ELSE PlaceOf(c[pos], comb[pos]) * PlaceValue(c, pos) + IndexOf(c, comb, pos + 1)

\* generate_samples was called on a valid space with 0 <= desiredCount <= totalSize
SamplesInContract ==
    /\ op = "generate_samples"
    /\ ValidSpace(combinations)
    /\ 0 <= arg /\ arg <= Product(combinations)

\* C9: generate_samples returns exactly desiredCount combinations, pairwise
\* distinct and in strictly increasing order of their index in the space.
C9_DistinctIncreasing ==
    (SamplesInContract /\ pc = "done") =>
        /\ outcome = "returned"
        /\ Len(subset) = arg
        /\ \A j \in 1..Len(subset) : \A k \in 1..Len(subset) :
              j < k => subset[j] # subset[k]
        /\ \A j \in 1..(Len(subset) - 1) :
              IndexOf(combinations, subset[j], 1)
                  < IndexOf(combinations, subset[j + 1], 1)

\* C10: every index generate_samples hands to the decoder satisfies
\* 0 <= index < totalSize, on the sampled path and on the full-space path.
C10_IndicesInRange ==
    SamplesInContract =>
        \A j \in 1..Len(decoded) :
            0 <= decoded[j] /\ decoded[j] < Product(combinations)

\* ------------------------------------------------------------ C11
\* generate_samples of either binding
SamplesOp == op \in {"generate_samples", "boost_generate_samples"}

\* the width of the sample-size type of the binding called
SamplesBits == IF op = "boost_generate_samples" THEN BigBits ELSE ULLBits

\* C11: when desiredCount = totalSize, generate_samples uses no sampler and
\* returns the decodes of the indices 0, 1, ..., totalSize - 1 in that order:
\* every combination of the product exactly once, in index order.
C11_FullSpaceInOrder ==
    (SamplesOp /\ pc = "done" /\ ValidSpace(combinations)
               /\ Product(combinations) < Pow2(SamplesBits)
               /\ arg = Product(combinations)) =>
        /\ outcome = "returned"
        /\ iter = NoIterator /\ returned = <<>>
        /\ decoded = [j \in 1..arg |-> j - 1]
        /\ Len(subset) = arg
        /\ \A j \in 1..Len(subset) :
              /\ Len(subset[j]) = Len(combinations)
              /\ \A pos \in 1..Len(combinations) :
                    \E d \in 1..Len(combinations[pos]) :
                        combinations[pos][d] = subset[j][pos]
              /\ IndexOf(combinations, subset[j], 1) = j - 1

\* ------------------------------------------------------------ C12
\* a call of entry_at or of generate_samples (either binding) has ended
PublicDone ==
    /\ pc = "done"
    /\ op \in {"entry_at", "boost_entry_at", "generate_samples",
                "boost_generate_samples"}

\* C12: every public operation given an empty domain list fails with the
\* same error kind, empty_list_error: entry_at([], i) as well as
\* generate_samples([], k), which fails before the space is computed or used.
C12_SameErrorKind ==
    (PublicDone /\ combinations = <<>>) =>
        /\ outcome = "empty_list_error"
        /\ combination = NoCombination
        /\ ps = NoStats /\ subset = <<>> /\ decoded = <<>>

\* ------------------------------------------------------------ C13
\* a non-empty list with an empty domain
HasEmptyDomain(c) == Len(c) >= 1 /\ \E d \in 1..Len(c) : Len(c[d]) = 0

\* C13: on a non-empty domain list with an empty domain the space is not
\* built: entry_at and generate_samples fail with the empty-domain error
\* (empty_answers_error), without a combination, and no space of size 0 is
\* produced.
C13_EmptyDomainError ==
    /\ (PublicDone /\ HasEmptyDomain(combinations)) =>
          /\ outcome = "empty_answers_error"
          /\ combination = NoCombination
          /\ subset = <<>> /\ decoded = <<>>
    /\ (pc = "done" /\ op \in {"compute_max_size", "boost_compute_max_size"}
            /\ HasEmptyDomain(combinations)) => outcome = "empty_answers_error"

\* ------------------------------------------------------------ C14
\* entry_at(possibilities, 5) of the README's basic example has returned
ReadmeCall ==
    /\ pc = "done" /\ op = "entry_at"
    /\ combinations = possibilities /\ arg = 5

C15_ExactProduct ==
    /\ (pc = "done" /\ op \in {"compute_max_size", "boost_compute_max_size"}) =>
          size = Product(combinations)
    /\ (SamplesOp /\ pc \in {"sampling", "full"}) =>
          ps.max_size = Product(combinations)

\* ------------------------------------------------------------ C16
\* what a sampler running alone guarantees of its counts (C6)
LoneGuarantees(x) ==
    /\ x.iter.num_left + Len(x.returned) = x.k
    /\ has_next(x.iter) <=> Len(x.returned) < x.k
    /\ x.outcome = "out_of_range" => Len(x.returned) = x.k

\* from x to y is a step a sampler running alone can take
LoneStep(x, y) ==
    \E drawn \in draws(x.iter) :
        LET res == next(x.iter, drawn)
        IN  /\ y.k = x.k
            /\ y.iter = res.iter
            /\ y.returned = IF res.thrown = "none"
                            THEN Append(x.returned, res.r) ELSE x.returned
            /\ y.outcome = IF res.thrown = "none" THEN "returned" ELSE res.thrown

\* C16: samplers whose steps are interleaved arbitrarily, with decode calls on
\* the shared list in between, do not interfere: a next() on one sampler
\* leaves the other samplers (n, last_k, num_left) and the shared domains
\* unchanged, a decode leaves every sampler unchanged, and each sampler takes
\* the steps, and keeps the guarantees, of a sampler running alone.
C16_NoInterference ==
    /\ [](op = "interleaved" => \A s \in DOMAIN samplers :
                                    LoneGuarantees(samplers[s]))
    /\ [][(op = "interleaved" /\ op' = "interleaved") =>
            /\ combinations' = combinations
            /\ \A s \in DOMAIN samplers :
                  samplers'[s] # samplers[s] =>
                      /\ \A t \in DOMAIN samplers \ {s} :
                            samplers'[t] = samplers[t]
                      /\ LoneStep(samplers[s], samplers'[s])
                      /\ combination' = combination
            /\ combination' # combination =>
                  /\ samplers' = samplers
                  /\ combination' =
                        entry_at(combinations, arg', build).combination]_vars

\* both samplers are in the middle of their runs, and a decode has returned
C16_Witness ==
    /\ op = "interleaved"
    /\ \A s \in DOMAIN samplers :
          Len(samplers[s].returned) >= 1 /\ has_next(samplers[s].iter)
    /\ NumSamplers >= 2 /\ DOMAIN samplers = 1..NumSamplers
    /\ outcome = "returned" /\ combination # NoCombination

\* ------------------------------------------------------------ C17
\* the values of an unsigned long long
MachineWord == 0..(Pow2(ULLBits) - 1)

Precomputed == SamplesOp /\ pc \in {"sampling", "full"}

\* C18: for every non-empty domain list of length L, precompute returns divs
\* and mods of exactly L entries each, with mods[i] the size of domains[i] and
\* divs[i] the product of the sizes of the domains after i (divs[L-1] = 1),
\* and it leaves the domains as they were.
C18_PlaceValues ==
    /\ [](Precomputed =>
            /\ Len(ps.divs) = Len(combinations)
            /\ Len(ps.mods) = Len(combinations)
            /\ \A pos \in 1..Len(combinations) :
                  /\ ps.mods[pos] = Len(combinations[pos])
                  /\ ps.divs[pos] = PlaceValue(combinations, pos))
    /\ [][combinations' = combinations]_vars

\* C19: after precompute, max_size = divs[0] * mods[0] for every domain list
\* whose total size fits the type of max_size: accumulating the place values
\* in an unsigned long truncates none of them.
C19_MaxSizeIsFactor ==
    (Precomputed /\ Product(combinations) < Pow2(SamplesBits)) =>
        /\ ps.max_size = ps.divs[1] * ps.mods[1]
        /\ \A pos \in 1..Len(combinations) :
              ps.divs[pos] = PlaceValue(combinations, pos)

\* ------------------------------------------------------------ C20
\* a step of a sampler as the claim describes it: from x, returning value
StepAsClaimed(x, y, value) ==
    LET rangeWidth == (x.n - x.last_k) \div x.num_left
    IN  \E offset \in 0..rangeWidth :
            /\ value = x.last_k + offset + 1
            /\ y.last_k = value
            /\ y.n = x.n
            /\ y.num_left = x.num_left - 1

\* C20: a sampler starts with remaining = k and lastValue = 0; each successful
\* next() computes rangeWidth = floor((upperBound - lastValue) / remaining),
\* picks an offset in [0, rangeWidth], returns lastValue + offset + 1, sets
\* lastValue to that value and never changes upperBound.
C20_StepFormula ==
    /\ []((op = "RandomIterator" /\ returned = <<>>) =>
              (iter.last_k = 0 /\ iter.num_left = arg))
    /\ [][(SamplerInContract /\ pc = "iter" /\ has_next(iter)) =>
              /\ Len(returned') = Len(returned) + 1
              /\ StepAsClaimed(iter, iter', returned'[Len(returned')])]_vars

\* ------------------------------------------------------------ C21
\* C21: in the native binding, for every k <= N, the offset next() adds can
\* be every number of [0, rangeWidth] and no other: rangeWidth is neither
\* truncated nor made negative on its way into the distribution.
C21_FullRange ==
    (SamplerInContract /\ pc = "iter" /\ has_next(iter)) =>
        draws(iter) = 0..((iter.n - iter.last_k) \div iter.num_left)

\* ------------------------------------------------------------ C22
\* the list and the argument fit the native range
FitsNative ==
    /\ Product(combinations) < Pow2(ULLBits)
    /\ 0 <= arg /\ arg < Pow2(ULLBits)

\* C22: for every domain list, index and sample size that fit the native
\* range, the native and the Boost binding agree step for step: same divs,
\* mods and max_size, same accept/reject decision and same combination from
\* entry_at, and, with the same random offsets, the same sampler values.
C22_BindingsAgree ==
    /\ (pc = "done" /\ op = "entry_at" /\ FitsNative) =>
          LET boost == boost_entry_at(combinations, arg)
          IN  /\ outcome = boost.outcome
              /\ combination = boost.combination
    /\ (op = "generate_samples" /\ pc \in {"sampling", "full"} /\ FitsNative) =>
          /\ ps = boost_precompute(combinations).ps
          /\ (pc = "sampling" /\ has_next(iter)) =>
                /\ draws(iter) = boost_draws(iter)
                /\ \A drawn \in draws(iter) :
                      next(iter, drawn) = boost_next(iter, drawn)

\* ------------------------------------------------------------ C23
\* C23: in version 1.1, entry_at(domains, totalSize) on a valid space whose
\* size fits long fails with index_error and never reaches the decoder.
C23_RejectsTotalSize ==
    (pc = "done" /\ op = "v11_entry_at" /\ ValidSpace(combinations)
        /\ IsLong(Product(combinations), build)
        /\ arg = Product(combinations)) =>
            (outcome = "index_error" /\ decoded = <<>>)

\* ------------------------------------------------------------ C24
\* a call of generate_samples of version 1.1 or 1.3 that has got its ps
SetCall ==
    /\ op \in {"v11_generate_samples", "v13_generate_samples"}
    /\ ps # NoStats

\* C24: in versions 1.1 and 1.3, once precompute has returned, generate_samples
\* with sample_size > max_size ends with invalid_sample_size_error, no index
\* drawn and nothing returned; with sample_size <= max_size it never ends with
\* that error.
C24_RejectsBeforeDrawing ==
    SetCall =>
        /\ SetSampleSize > ps.max_size =>
              /\ pc = "done"
              /\ outcome = "invalid_sample_size_error"
              /\ candidates = {} /\ returned = <<>> /\ subset = <<>>
        /\ SetSampleSize <= ps.max_size =>
              outcome # "invalid_sample_size_error"

\* version 1.1 has rejected a sample one larger than the space
C24_Witness ==
    /\ SetCall /\ op = "v11_generate_samples"
    /\ ValidSpace(combinations)
    /\ arg = ps.max_size + 1
    /\ outcome = "invalid_sample_size_error"

\* ------------------------------------------------------------ C25
\* C25: in versions 1.1 and 1.3, when the loop of generate_random_indices has
\* ended for a sample_size with 0 <= sample_size < max_size, the result holds
\* exactly sample_size indices, all in [0, max_size - 1], in strictly increasing
\* order.
C25_ExactSample ==
    (SetCall /\ pc = "done" /\ 0 <= SetSampleSize
        /\ SetSampleSize < ps.max_size) =>
            /\ Len(returned) = SetSampleSize
            /\ \A j \in 1..Len(returned) :
                  /\ 0 <= returned[j] /\ returned[j] <= ps.max_size - 1
                  /\ j > 1 => returned[j - 1] < returned[j]

\* ------------------------------------------------------------ C26
\* C26: for a sampler created with 1 <= k <= N, every state in which a draw is
\* still possible has upperBound - lastValue >= remaining - 1 >= 0, so the
\* subtraction n - last_k in next() never underflows.
C26_NoUnderflow ==
    (SamplerInContract /\ arg >= 1 /\ pc = "iter" /\ has_next(iter)) =>
        /\ iter.n - iter.last_k >= iter.num_left - 1
        /\ iter.num_left - 1 >= 0

\* ------------------------------------------------------------ C27
\* C27: for a sampler created with 1 <= k <= N, every value returned while a
\* further draw remains is <= N, and the k-th value is <= N + 1.
C27_AtMostOnePast ==
    (SamplerInContract /\ arg >= 1 /\ pc = "iter") =>
        \A j \in 1..Len(returned) :
            /\ returned[j] <= iter.n + 1
            /\ j < arg => returned[j] <= iter.n

\* ------------------------------------------------------------ C28
\* C28: for every valid space and every n >= 0, the private entry_at returns
\* for n the combination it returns for n mod totalSize.
C28_Periodic ==
    (pc = "done" /\ op = "entry_at_private" /\ ValidSpace(combinations)) =>
        /\ outcome = "returned"
        /\ combination =
              entry_at_private(combinations, arg % Product(combinations),
                               ps, build).combination

\* ------------------------------------------------------------ C29
\* C29: whenever generate_samples has run the private entry_at, for any domain
\* list and any sample size, every divs[i] and mods[i] it used is >= 1.
C29_NoZeroDivisor ==
    (op = "generate_samples" /\ decoded # <<>>) =>
        \A pos \in 1..Len(combinations) :
            ps.divs[pos] >= 1 /\ ps.mods[pos] >= 1

\* ------------------------------------------------------------ C30
\* C30: when sample_size != max_size, every value generate_samples takes from
\* the sampler and decodes is >= 1.
C30_NeverIndexZero ==
    (op = "generate_samples" /\ pc \in {"sampling", "done"}
        /\ ps # NoStats /\ Wrap(arg, ULLBits) # ps.max_size) =>
            \A j \in 1..Len(decoded) : decoded[j] >= 1

====
